---- MODULE Spec2Model ----
(***************************************************************************)
(* Model of web/public/serviceworker.js: the 'fetch' listener of the       *)
(* xpress-calc service worker and its helper requestOverNetwork.           *)
(*                                                                         *)
(* Every platform promise (caches.match, fetch, caches.open, cache.put) is *)
(* settled by the platform in a task of its own; the callbacks the code    *)
(* chained onto it run in the microtask checkpoint of that task, so one    *)
(* action is: the platform settles a promise, and every callback of the    *)
(* source that this makes runnable runs to completion.                     *)
(***************************************************************************)
EXTENDS Naturals, Sequences, FiniteSets

\* ---- bounds ----
NumEvents == 2

Events == 1..NumEvents
Requests == {"r1", "r2"}
Bodies == {"v1", "v2"}
MatchErrors == {"cacheErr"}
FetchErrors == {"offline", "timeout"}
WriteErrors == {"quota"}

\* ---- values ----
\* a Response object: its body, and its identity <<event, kind>>
Response(b, e, k) == [body |-> b, obj |-> <<e, k>>]
\* JavaScript's undefined, the value of caches.match on a miss
Undefined == [body |-> "undefined", obj |-> <<0, "undefined">>]
NoValue == [body |-> "none", obj |-> <<0, "none">>]
\* entries left in the Cache Store by earlier sessions of the worker: an
\* older version of the page than any the network serves now
StoredBefore == {Response("v0", 0, "clone")}

\* promise states
Pending == [state |-> "pending", value |-> NoValue, reason |-> "none"]
Fulfilled(v) == [state |-> "fulfilled", value |-> v, reason |-> "none"]
Rejected(r) == [state |-> "rejected", value |-> NoValue, reason |-> r]

\* console.error entries
MatchFailed(r) == [msg |-> "ServiceWorker cache match failed: ", reason |-> r]
FetchFailed(r) == [msg |-> "ServiceWorker fetch failed: ", reason |-> r]

VARIABLES
  cache,          \* the Cache Store "xpress-calc": request -> stored response
  pc,             \* per event: "idle", "matching", "fetching", "done"
  req,            \* per event: event.request
  matchResult,    \* per event: the promise of caches.match(event.request)
  fetchResult,    \* per event: the promise of fetch(event.request)
  networkFetch,   \* per event: the promise requestOverNetwork returned
  respondWith,    \* per event: the promise passed to event.respondWith
  responseClone,  \* per event: the duplicate made for the cache
  write,          \* per event: "none", "opening", "putting", "stored", "failed"
  console,        \* per event: the console.error entries written for it
  fetchCalls,     \* per event: one entry per fetch() call issued, holding
                  \* the state of the lookup promise at the call
  cacheAtDispatch, \* per event: the store's entry for the request at dispatch
  fetched         \* the events whose fetch was fulfilled, in order of fulfilment

vars == <<cache, pc, req, matchResult, fetchResult, networkFetch, respondWith,
          responseClone, write, console, fetchCalls, cacheAtDispatch, fetched>>

Init ==
  /\ cache \in [Requests -> {Undefined} \cup StoredBefore]
  /\ pc = [e \in Events |-> "idle"]
  /\ req = [e \in Events |-> "none"]
  /\ matchResult = [e \in Events |-> Pending]
  /\ fetchResult = [e \in Events |-> Pending]
  /\ networkFetch = [e \in Events |-> Pending]
  /\ respondWith = [e \in Events |-> Pending]
  /\ responseClone = [e \in Events |-> NoValue]
  /\ write = [e \in Events |-> "none"]
  /\ console = [e \in Events |-> <<>>]
  /\ fetchCalls = [e \in Events |-> <<>>]
  /\ cacheAtDispatch = [e \in Events |-> NoValue]
  /\ fetched = <<>>

\* ---- pure parts of the code ----

\* response.clone(): a new object with the same body
cloneSame(response) == response
clone(response) == Response(response.body, response.obj[1], "clone")

\* networkFetch.catch(_ => cachedResponse)
NetworkFetchCatchPassThrough(nf, cachedResponse) == nf
NetworkFetchCatchCacheFirst(nf, cachedResponse) ==
  IF cachedResponse # Undefined THEN Fulfilled(cachedResponse)
  ELSE IF nf.state = "rejected" THEN Fulfilled(cachedResponse) ELSE nf
NetworkFetchCatch(nf, cachedResponse) ==
  IF nf.state = "rejected" THEN Fulfilled(cachedResponse) ELSE nf

\* .catch(function (reason) { console.error(...); return Promise.reject(reason); })
requestOverNetworkCatchSwallow(reason) == Fulfilled(Undefined)
requestOverNetworkCatch(reason) == Rejected(reason)

\* the promise handed to event.respondWith, from the settled lookup and the
\* settled promise of requestOverNetwork
respondWithResult(lookup, nf) ==
  IF lookup.state = "fulfilled"
    THEN NetworkFetchCatch(nf, lookup.value)
    ELSE nf

\* ---- actions ----

\* the listener runs: caches.match(event.request) is issued and its chain is
\* passed to event.respondWith
DispatchEager(e, r) ==
  /\ pc[e] = "idle"
  /\ \A d \in Events : d < e => pc[d] # "idle"
  /\ pc' = [pc EXCEPT ![e] = "matching"]
  /\ req' = [req EXCEPT ![e] = r]
  /\ cacheAtDispatch' = [cacheAtDispatch EXCEPT ![e] = cache[r]]
  /\ fetchCalls' = [fetchCalls EXCEPT ![e] = Append(@, matchResult[e].state)]
  /\ UNCHANGED <<cache, matchResult, fetchResult, networkFetch, respondWith,
                 responseClone, write, console, fetched>>
Dispatch(e, r) ==
  /\ pc[e] = "idle"
  /\ \A d \in Events : d < e => pc[d] # "idle"
  /\ pc' = [pc EXCEPT ![e] = "matching"]
  /\ req' = [req EXCEPT ![e] = r]
  /\ cacheAtDispatch' = [cacheAtDispatch EXCEPT ![e] = cache[r]]
  /\ UNCHANGED <<cache, matchResult, fetchResult, networkFetch, respondWith,
                 responseClone, write, console, fetchCalls, fetched>>

\* caches.match resolves (hit, or undefined on a miss); the .then callback
\* calls requestOverNetwork, which issues fetch(event.request)
MatchFulfilAlwaysMiss(e) ==
  /\ pc[e] = "matching"
  /\ matchResult' = [matchResult EXCEPT ![e] = Fulfilled(Undefined)]
  /\ fetchCalls' = [fetchCalls EXCEPT ![e] = Append(@, "fulfilled")]
  /\ pc' = [pc EXCEPT ![e] = "fetching"]
  /\ UNCHANGED <<cache, req, fetchResult, networkFetch, respondWith,
                 responseClone, write, console, cacheAtDispatch, fetched>>
MatchFulfilCacheFirst(e) ==
  /\ pc[e] = "matching"
  /\ matchResult' = [matchResult EXCEPT ![e] = Fulfilled(cache[req[e]])]
  /\ fetchCalls' = [fetchCalls EXCEPT ![e] = Append(@, matchResult'[e].state)]
  /\ respondWith' = [respondWith EXCEPT ![e] =
                       IF cache[req[e]] # Undefined
                         THEN Fulfilled(cache[req[e]]) ELSE @]
  /\ pc' = [pc EXCEPT ![e] = "fetching"]
  /\ UNCHANGED <<cache, req, fetchResult, networkFetch,
                 responseClone, write, console, cacheAtDispatch, fetched>>
MatchFulfil(e) ==
  /\ pc[e] = "matching"
  /\ matchResult' = [matchResult EXCEPT ![e] = Fulfilled(cache[req[e]])]
  /\ fetchCalls' = [fetchCalls EXCEPT ![e] = Append(@, matchResult'[e].state)]
  /\ pc' = [pc EXCEPT ![e] = "fetching"]
  /\ UNCHANGED <<cache, req, fetchResult, networkFetch, respondWith,
                 responseClone, write, console, cacheAtDispatch, fetched>>

\* caches.match rejects; the outer .catch logs and calls requestOverNetwork
MatchRejectSilent(e, reason) ==
  /\ pc[e] = "matching"
  /\ matchResult' = [matchResult EXCEPT ![e] = Rejected(reason)]
  /\ fetchCalls' = [fetchCalls EXCEPT ![e] = Append(@, "rejected")]
  /\ pc' = [pc EXCEPT ![e] = "fetching"]
  /\ UNCHANGED <<cache, req, fetchResult, networkFetch, respondWith,
                 responseClone, write, console, cacheAtDispatch, fetched>>
MatchReject(e, reason) ==
  /\ pc[e] = "matching"
  /\ matchResult' = [matchResult EXCEPT ![e] = Rejected(reason)]
  /\ console' = [console EXCEPT ![e] = Append(@, MatchFailed(reason))]
  /\ fetchCalls' = [fetchCalls EXCEPT ![e] = Append(@, matchResult'[e].state)]
  /\ pc' = [pc EXCEPT ![e] = "fetching"]
  /\ UNCHANGED <<cache, req, fetchResult, networkFetch, respondWith,
                 responseClone, write, cacheAtDispatch, fetched>>

\* fetch resolves with a response: clone it, issue caches.open (not awaited),
\* return the original; the listener's chain settles event.respondWith
FetchFulfilAwaitsWrite(e, b) ==
  /\ pc[e] = "fetching"
  /\ fetchResult' = [fetchResult EXCEPT ![e] = Fulfilled(Response(b, e, "net"))]
  /\ responseClone' = [responseClone EXCEPT ![e] = clone(fetchResult'[e].value)]
  /\ write' = [write EXCEPT ![e] = "opening"]
  /\ pc' = [pc EXCEPT ![e] = "done"]
  /\ fetched' = Append(fetched, e)
  /\ UNCHANGED <<cache, req, matchResult, networkFetch, respondWith, console,
                 fetchCalls, cacheAtDispatch>>
FetchFulfil(e, b) ==
  /\ pc[e] = "fetching"
  /\ fetchResult' = [fetchResult EXCEPT ![e] = Fulfilled(Response(b, e, "net"))]
  /\ responseClone' = [responseClone EXCEPT ![e] = clone(fetchResult'[e].value)]
  /\ write' = [write EXCEPT ![e] = "opening"]
  /\ networkFetch' = [networkFetch EXCEPT ![e] = Fulfilled(fetchResult'[e].value)]
  /\ respondWith' = [respondWith EXCEPT ![e] =
                       respondWithResult(matchResult[e], networkFetch'[e])]
  /\ pc' = [pc EXCEPT ![e] = "done"]
  /\ fetched' = Append(fetched, e)
  /\ UNCHANGED <<cache, req, matchResult, console, fetchCalls, cacheAtDispatch>>

\* fetch rejects: log, re-reject; the listener's chain settles respondWith
FetchRejectReread(e, reason) ==
  /\ pc[e] = "fetching"
  /\ fetchResult' = [fetchResult EXCEPT ![e] = Rejected(reason)]
  /\ console' = [console EXCEPT ![e] = Append(@, FetchFailed(reason))]
  /\ networkFetch' = [networkFetch EXCEPT ![e] = requestOverNetworkCatch(reason)]
  /\ respondWith' = [respondWith EXCEPT ![e] =
                       IF matchResult[e].state = "fulfilled"
                         THEN Fulfilled(cache[req[e]]) ELSE networkFetch'[e]]
  /\ pc' = [pc EXCEPT ![e] = "done"]
  /\ UNCHANGED <<cache, req, matchResult, responseClone, write, fetchCalls,
                 cacheAtDispatch, fetched>>
FetchReject(e, reason) ==
  /\ pc[e] = "fetching"
  /\ fetchResult' = [fetchResult EXCEPT ![e] = Rejected(reason)]
  /\ console' = [console EXCEPT ![e] = Append(@, FetchFailed(reason))]
  /\ networkFetch' = [networkFetch EXCEPT ![e] = requestOverNetworkCatch(reason)]
  /\ respondWith' = [respondWith EXCEPT ![e] =
                       respondWithResult(matchResult[e], networkFetch'[e])]
  /\ pc' = [pc EXCEPT ![e] = "done"]
  /\ UNCHANGED <<cache, req, matchResult, responseClone, write, fetchCalls,
                 cacheAtDispatch, fetched>>

\* caches.open("xpress-calc") resolves; its callback issues cache.put
OpenFulfil(e) ==
  /\ write[e] = "opening"
  /\ write' = [write EXCEPT ![e] = "putting"]
  /\ UNCHANGED <<cache, pc, req, matchResult, fetchResult, networkFetch,
                 respondWith, responseClone, console, fetchCalls,
                 cacheAtDispatch, fetched>>

\* caches.open rejects: nothing is chained onto the rejection
OpenRejectLogged(e, reason) ==
  /\ write[e] = "opening"
  /\ write' = [write EXCEPT ![e] = "failed"]
  /\ console' = [console EXCEPT ![e] =
                   Append(@, [msg |-> "ServiceWorker cache write failed: ",
                              reason |-> reason])]
  /\ UNCHANGED <<cache, pc, req, matchResult, fetchResult, networkFetch,
                 respondWith, responseClone, fetchCalls, cacheAtDispatch,
                 fetched>>
OpenReject(e, reason) ==
  /\ write[e] = "opening"
  /\ write' = [write EXCEPT ![e] = "failed"]
  /\ UNCHANGED <<cache, pc, req, matchResult, fetchResult, networkFetch,
                 respondWith, responseClone, console, fetchCalls,
                 cacheAtDispatch, fetched>>

\* cache.put(event.request, responseClone) completes
PutFulfilWrongKey(e) ==
  /\ write[e] = "putting"
  /\ \E r \in Requests \ {req[e]} :
       cache' = [cache EXCEPT ![r] = responseClone[e]]
  /\ write' = [write EXCEPT ![e] = "stored"]
  /\ UNCHANGED <<pc, req, matchResult, fetchResult, networkFetch, respondWith,
                 responseClone, console, fetchCalls, cacheAtDispatch, fetched>>
PutFulfil(e) ==
  /\ write[e] = "putting"
  /\ cache' = [cache EXCEPT ![req[e]] = responseClone[e]]
  /\ write' = [write EXCEPT ![e] = "stored"]
  /\ UNCHANGED <<pc, req, matchResult, fetchResult, networkFetch, respondWith,
                 responseClone, console, fetchCalls, cacheAtDispatch, fetched>>

\* cache.put rejects: the promise of put is dropped by the callback
PutRejectSurfaced(e, reason) ==
  /\ write[e] = "putting"
  /\ write' = [write EXCEPT ![e] = "failed"]
  /\ respondWith' = [respondWith EXCEPT ![e] = Rejected(reason)]
  /\ UNCHANGED <<cache, pc, req, matchResult, fetchResult, networkFetch,
                 responseClone, console, fetchCalls, cacheAtDispatch, fetched>>
PutReject(e, reason) ==
  /\ write[e] = "putting"
  /\ write' = [write EXCEPT ![e] = "failed"]
  /\ UNCHANGED <<cache, pc, req, matchResult, fetchResult, networkFetch,
                 respondWith, responseClone, console, fetchCalls,
                 cacheAtDispatch, fetched>>

Next ==
  \/ \E e \in Events, r \in Requests : Dispatch(e, r)
  \/ \E e \in Events : MatchFulfil(e)
  \/ \E e \in Events, reason \in MatchErrors : MatchReject(e, reason)
  \/ \E e \in Events, b \in Bodies : FetchFulfil(e, b)
  \/ \E e \in Events, reason \in FetchErrors : FetchReject(e, reason)
  \/ \E e \in Events : OpenFulfil(e)
  \/ \E e \in Events, reason \in WriteErrors : OpenReject(e, reason)
  \/ \E e \in Events : PutFulfil(e)
  \/ \E e \in Events, reason \in WriteErrors : PutReject(e, reason)

Spec == Init /\ [][Next]_vars

\* ---- the claims ----

Settled(e) == pc[e] = "done"
Hit(e) == matchResult[e].state = "fulfilled" /\ matchResult[e].value # Undefined
Miss(e) == matchResult[e].state = "fulfilled" /\ matchResult[e].value = Undefined
LastEntry(e) == console[e][Len(console[e])]

\* C1: an event whose cache lookup resolved to an existing entry v and whose
\* network fetch rejected has the promise given to event.respondWith
\* fulfilled with v, not rejected.
C1_CachedFallback ==
  \A e \in Events :
    (Settled(e) /\ Hit(e) /\ fetchResult[e].state = "rejected")
      => respondWith[e] = Fulfilled(matchResult[e].value)

C1_Witness ==
  \E e \in Events :
    /\ Settled(e) /\ Hit(e) /\ fetchResult[e].state = "rejected"
    /\ matchResult[e].value = cacheAtDispatch[e]

WriteOver(e) == write[e] \in {"stored", "failed"}
\* no other event for the same request has completed a put
SoleWriter(e) ==
  \A d \in Events \ {e} : req[d] = req[e] => write[d] # "stored"

C4_Original ==
  \A e \in Events :
    (Settled(e) /\ Miss(e) /\ fetchResult[e].state = "rejected")
      => respondWith[e].state = "rejected"

\* C5: a failure of the cache write never changes the outcome of the event
\* that triggered it: once the write has been started (whether it is still
\* in progress, has succeeded or has failed) the event stays answered with
\* the fetched response n and is never rejected.
C5_FireAndForget ==
  \A e \in Events :
    write[e] # "none"
      => /\ fetchResult[e].state = "fulfilled"
         /\ respondWith[e].state = "fulfilled"
         /\ respondWith[e].value = fetchResult[e].value

C5_Witness ==
  \E e, d \in Events :
    /\ write[e] = "failed" /\ respondWith[e].state = "fulfilled"
    /\ write[d] = "putting" /\ respondWith[d].state = "fulfilled"

\* C6: when the cache lookup itself rejects, the lookup failure is logged
\* and the event's outcome is that of the network attempt: fulfilled with
\* the network response, with exactly one log entry for the event, or
\* rejected with the fetch's rejection reason.
C6_LookupFailure ==
  \A e \in Events :
    matchResult[e].state = "rejected"
      => /\ Len(console[e]) >= 1
         /\ console[e][1] = MatchFailed(matchResult[e].reason)
         /\ Settled(e) => respondWith[e] = fetchResult[e]
         /\ (Settled(e) /\ fetchResult[e].state = "fulfilled")
              => /\ Len(console[e]) = 1
                 /\ respondWith[e].value.obj = <<e, "net">>
         /\ (Settled(e) /\ fetchResult[e].state = "rejected")
              => respondWith[e] = Rejected(fetchResult[e].reason)

C6_Witness ==
  \E e, d \in Events :
    /\ Settled(e) /\ matchResult[e].state = "rejected"
    /\ fetchResult[e].state = "fulfilled"
    /\ Settled(d) /\ matchResult[d].state = "rejected"
    /\ fetchResult[d].state = "rejected"

\* event e2 was dispatched after e1's cache write completed, and nothing
\* else has written the key since
ServedAfter(e1, e2) ==
  /\ e1 # e2 /\ req[e1] = req[e2]
  /\ fetchResult[e1].state = "fulfilled" /\ write[e1] = "stored"
  /\ cacheAtDispatch[e2] = responseClone[e1]
  /\ cache[req[e2]] = responseClone[e1]

C10_NetworkFailure ==
  \A e \in Events :
    fetchResult[e].state = "rejected"
      => /\ networkFetch[e] = Rejected(fetchResult[e].reason)
         /\ Len(console[e]) >= 1
         /\ LastEntry(e) = FetchFailed(fetchResult[e].reason)
         /\ write[e] = "none"
         /\ responseClone[e] = NoValue

C10_Witness ==
  \E e, d \in Events :
    /\ networkFetch[e] = Rejected("offline")
    /\ networkFetch[d] = Rejected("timeout")

\* ---- C11 to C14 ----

ExpectedLog(e) ==
  (IF matchResult[e].state = "rejected"
     THEN <<MatchFailed(matchResult[e].reason)>> ELSE <<>>)
  \o (IF fetchResult[e].state = "rejected"
        THEN <<FetchFailed(fetchResult[e].reason)>> ELSE <<>>)

\* C11: the diagnostics written for an event are exactly one
\* cache-lookup-failure entry iff its lookup rejected, and one
\* network-failure entry per rejected fetch; a miss, a cache-write failure
\* and a silent fallback to a cached response log nothing, so an event logs
\* at most two entries.
C11_Diagnostics ==
  \A e \in Events :
    /\ console[e] = ExpectedLog(e)
    /\ Len(console[e]) <= 2

C11_Witness ==
  \E e, d \in Events :
    /\ Len(console[e]) = 2
    /\ Miss(d) /\ write[d] = "failed" /\ console[d] = <<>>

\* C12: on a successful fetch the response is duplicated: the object given
\* to the caller is the original, the object given to cache.put is the
\* duplicate with the same body, and no one response object is handed to
\* both the caller and the cache.
C12_CloneBeforeUse ==
  /\ \A e \in Events :
       fetchResult[e].state = "fulfilled"
         => /\ respondWith[e].value = fetchResult[e].value
            /\ responseClone[e].body = fetchResult[e].value.body
            /\ responseClone[e].obj # fetchResult[e].value.obj
  /\ \A r \in Requests, e \in Events :
       respondWith[e].state = "fulfilled" /\ fetchResult[e].state = "fulfilled"
         => cache[r].obj # respondWith[e].value.obj

C12_Witness ==
  \E e \in Events :
    /\ write[e] = "stored" /\ cache[req[e]] = responseClone[e]
    /\ respondWith[e].value.obj = <<e, "net">>

\* C13: the store changes only by a put of the response of a successful
\* fetch under the key of that same event's request: an event whose fetch
\* rejected changes nothing, no event writes under another request's key,
\* and no entry is ever removed.
C13_StoreFrame ==
  [][\A r \in Requests :
       cache'[r] # cache[r]
         => /\ cache'[r] # Undefined
            /\ \E e \in Events :
                 /\ req[e] = r
                 /\ fetchResult[e].state = "fulfilled"
                 /\ write[e] = "putting" /\ write'[e] = "stored"
                 /\ cache'[r].obj = <<e, "clone">>
                 /\ cache'[r].body = fetchResult[e].value.body]_vars

C13_Witness ==
  \E e, d \in Events :
    /\ write[e] = "stored" /\ cache[req[e]] = responseClone[e]
    /\ req[d] # req[e] /\ Settled(d) /\ fetchResult[d].state = "rejected"
    /\ cache[req[d]] = cacheAtDispatch[d]

LookupSettles(e) == MatchFulfil(e) \/ \E reason \in MatchErrors : MatchReject(e, reason)
FetchSettles(e) ==
  (\E b \in Bodies : FetchFulfil(e, b)) \/ (\E reason \in FetchErrors : FetchReject(e, reason))
PrimitivesSettle ==
  \A e \in Events : WF_vars(LookupSettles(e)) /\ WF_vars(FetchSettles(e))
LiveSpec == Spec /\ PrimitivesSettle

\* C15: if the cache lookup and the network fetch of every event eventually
\* settle, the promise given to event.respondWith eventually settles: again
\* and again a state is reached in which every dispatched event has its
\* promise settled. Once settled the promise never changes (it settles
\* exactly once), and nothing is assumed of caches.open or cache.put ever
\* completing.
C15_SettlesOnce ==
  /\ []<>(\A e \in Events : pc[e] # "idle" => respondWith[e].state # "pending")
  /\ [][\A e \in Events :
          respondWith[e].state # "pending" => respondWith'[e] = respondWith[e]]_vars

C15_Witness ==
  \E e, d \in Events :
    /\ respondWith[e].state = "fulfilled" /\ write[e] = "opening"
    /\ respondWith[d].state = "rejected"

\* ---- C16 and C17 ----

\* C16: the cached response used as fallback is the value the store held
\* for the request when the event's lookup resolved; the looked-up value
\* does not change afterwards, and when the fetch rejects the event is
\* answered with it (undefined on a miss), whatever the store holds by then.
C16_LookupSnapshot ==
  [][\A e \in Events :
       /\ (matchResult[e].state = "pending" /\ matchResult'[e].state = "fulfilled")
            => matchResult'[e].value = cache[req[e]]
       /\ matchResult[e].state = "fulfilled" => matchResult'[e] = matchResult[e]
       /\ (pc[e] = "fetching" /\ matchResult[e].state = "fulfilled"
             /\ fetchResult'[e].state = "rejected")
            => respondWith'[e] = Fulfilled(matchResult[e].value)]_vars

C16_Witness ==
  \E e, d \in Events :
    /\ Settled(e) /\ matchResult[e].state = "fulfilled"
    /\ fetchResult[e].state = "rejected"
    /\ d # e /\ req[d] = req[e] /\ write[d] = "stored"
    /\ cache[req[e]] = responseClone[d]
    /\ cache[req[e]] # matchResult[e].value
    /\ respondWith[e] = Fulfilled(matchResult[e].value)

\* position of event e in the order of fetch fulfilment
FetchedAt(e) == CHOOSE i \in 1..Len(fetched) : fetched[i] = e

\* C17: when several events for the same request all fetched successfully
\* and all their cache writes have completed, the store holds under the
\* request the response of the fetch that completed last.
C17_Original ==
  \A e \in Events :
    (/\ fetchResult[e].state = "fulfilled" /\ write[e] = "stored"
     /\ \E d \in Events \ {e} : req[d] = req[e] /\ fetchResult[d].state = "fulfilled"
     /\ \A d \in Events \ {e} :
          (req[d] = req[e] /\ pc[d] # "idle")
            => /\ fetchResult[d].state = "fulfilled" /\ write[d] = "stored"
               /\ FetchedAt(d) < FetchedAt(e))
      => cache[req[e]] = responseClone[e]

====
